---------------------------- MODULE Spec2Model ----------------------------
(***************************************************************************)
(* Model of the transaction hooks of Mega2048-gas-fix.                     *)
(*                                                                         *)
(*  v1  src/useTransactions-fixed.tsx, lines 21-481: useTransactions with  *)
(*      resetNonceAndBalance, getCurrentGasPrices, estimateGas,            *)
(*      sendRawTransactionAndConfirm, initializeGameTransaction and        *)
(*      playNewMoveTransaction.                                            *)
(*  v2  src/README.md, lines 204-407: useTransactions with                 *)
(*      getOptimizedGasConfig, startGame and playMove.                     *)
(*                                                                         *)
(* JavaScript runs one task at a time: a handler runs without interruption *)
(* from one `await` of an external promise to the next.  Each action below *)
(* is one such run: the call itself up to its first pending await, or the  *)
(* continuation that runs when the awaited promise settles.                *)
(*                                                                         *)
(* Units.  TLC's integers are 32 bits wide, the program's are bigint.      *)
(*   - v1 gas prices are in wei (parseGwei("2") = 2 * 10^9 fits).          *)
(*   - v1 balances are in units of 10^14 wei (0.0001 ether); every balance *)
(*     constant of v1 (0.01, 0.0075, 0.005 ether) is a whole number of     *)
(*     them.                                                               *)
(*   - v2 gas prices are in gwei (10^9 wei); every price constant of v2    *)
(*     (parseEther of 0.0005, 0.001, 0.002, 0.01) is a whole number of     *)
(*     them.                                                               *)
(***************************************************************************)
EXTENDS Integers, Sequences, FiniteSets, Bags, TLC

VARIABLES
    user,          \* usePrivy().user: "none" (null), or a user
    userNonce,     \* userNonce.current
    userBalance,   \* userBalance.current, in units of 10^14 wei
    userAddress,   \* userAddress.current ("" when unset)
    walletClient,  \* walletClient.current ("null" when unset)
    providerRequests, \* getWalletClient runs awaiting getEthereumProvider()
    reset,         \* the resetNonceAndBalance calls in flight (a bag)
    tx,            \* per domain-operation call: its position and locals
    v2,            \* the getOptimizedGasConfig (v2) call: position and locals
    probe          \* the last application of a gas function on its own

vars == <<user, userNonce, userBalance, userAddress, walletClient, providerRequests, reset, tx, v2, probe>>

v1vars == <<user, userNonce, userBalance, userAddress, walletClient, providerRequests, reset, tx>>

(***************************************************************************)
(* Bounds of the model.                                                    *)
(***************************************************************************)
\* Domain operations are started only while the cached nonce is below this.
MaxNonce == 2

\* The node reports transaction counts 0..MaxNodeNonce.
MaxNodeNonce == 1

\* resetNonceAndBalance is started only while fewer calls of it than this
\* are in flight.
MaxResets == 2

\* getWalletClient is started only while fewer runs of it than this await
\* the provider.
MaxProviderRequests == 1

\* The two call slots: up to two domain operations may be in flight at once.
Calls == {"c1", "c2"}

\* "No value" for an optional number (undefined / null).
Null == -1

(***************************************************************************)
(* Program constants.                                                      *)
(***************************************************************************)
\* viem parseGwei: gwei -> wei.
WeiPerGwei == 1000000000

parseGwei(g) == g * WeiPerGwei

\* getCurrentGasPrices: the tip, parseGwei("1").
TipGwei == 1

\* getCurrentGasPrices: the fallback maxFeePerGas, parseGwei("2.0").
FallbackMaxFeeGwei == 2

\* estimateGas: the buffer, (estimatedGas * 120n) / 100n.
GasBufferPercent == 120

\* estimateGas: the fallback, BigInt(100000).
FallbackGasLimit == 100000

\* One retry more than configured.
RetriesOneMore == 3 + 1

\* post(...): retries: 3, retryDelay: 2000.
Retries == 3

RetryDelay == 2000

\* parseFloat(formatEther(balance)) < 0.01, in units of 10^14 wei.
MinBalance == 100

\* parseEther("0.0075") and parseEther("0.005"), in units of 10^14 wei.
InitCost == 75

PlayCost == 50

(***************************************************************************)
(* What the environment may answer.                                        *)
(***************************************************************************)
\* usePrivy().user: null, a user without an embedded (privy) wallet among
\* its linked accounts, a user with one.
Users == {"none", "external", "alice"}

\* The address of the user's linked privy wallet ("" when there is none).
PrivyAddress(u) == IF u = "alice" THEN "0xA11CE" ELSE ""

\* publicClient.getTransactionCount / getBalance answers.
NodeNonces == 0..MaxNodeNonce

NodeBalances == {99, 100, 200}

\* latestBlock.baseFeePerGas of publicClient.getBlock(): missing (Null), 0,
\* 0.001 gwei (the base fee the README's error message reports), 0.5 gwei,
\* 1 gwei.
BaseFees == {Null, 0, 1000000, 500000000, 1000000000}

\* publicClient.estimateGas answers (95432 is the README's example).
GasEstimates == {95432}

\* The JSON-RPC response of eth_sendRawTransaction as post returns it.
NoError == "none"

Undefined == "undefined"

Responses ==
    { [error |-> "nonce too low", result |-> Undefined],
      [error |-> NoError, result |-> "0xabc"],
      [error |-> NoError, result |-> Undefined] }

\* receipt.status of waitForTransactionReceipt.
ReceiptStatuses == {"success", "reverted"}

(***************************************************************************)
(* Pure functions of v1.                                                   *)
(***************************************************************************)
\* A test for undefined / null only (as ?? would make): 0n counts as a value.
FalsyNullOnly(x) == x = Null

\* JavaScript truthiness of an optional bigint: undefined, null and 0n are
\* falsy.
Falsy(x) == x = Null \/ x = 0

\* The catch of getCurrentGasPrices with the defaults the fix replaced
\* ("Increased from 0.05" / "Increased from 0.01", in gwei).
getCurrentGasPricesOldDefaults(ok, baseFee) ==
    IF ok
    THEN LET baseFeePerGas == IF Falsy(baseFee) THEN parseGwei(TipGwei) ELSE baseFee
         IN  [maxFeePerGas |-> baseFeePerGas * 2,
              maxPriorityFeePerGas |-> parseGwei(TipGwei)]
    ELSE [maxFeePerGas |-> parseGwei(1) \div 20,
          maxPriorityFeePerGas |-> parseGwei(1) \div 100]

\* getCurrentGasPrices, given the outcome of publicClient.getBlock():
\* ok = FALSE when the lookup throws, else baseFee is the block's
\* baseFeePerGas.
getCurrentGasPrices(ok, baseFee) ==
    IF ok
    THEN LET baseFeePerGas == IF Falsy(baseFee) THEN parseGwei(TipGwei) ELSE baseFee
         IN  [maxFeePerGas |-> baseFeePerGas * 2,
              maxPriorityFeePerGas |-> parseGwei(TipGwei)]
    ELSE [maxFeePerGas |-> parseGwei(FallbackMaxFeeGwei),
          maxPriorityFeePerGas |-> parseGwei(TipGwei)]

\* estimateGas with the fallback the fix replaced ("Reduced from 300k").
estimateGasOldFallback(address, ok, estimatedGas) ==
    IF address = "" \/ ~ok
    THEN 300000
    ELSE (estimatedGas * GasBufferPercent) \div 100

\* estimateGas, given userAddress.current and the outcome of
\* publicClient.estimateGas (ok = FALSE when it throws).
estimateGas(address, ok, estimatedGas) ==
    IF address = "" \/ ~ok
    THEN FallbackGasLimit
    ELSE (estimatedGas * GasBufferPercent) \div 100

\* Only an empty account is refused.
InsufficientBalanceEmpty(balance) == balance <= 0

\* parseFloat(formatEther(balance)) < 0.01.  formatEther prints the exact
\* decimal value and parseFloat rounds it to the nearest double; the largest
\* balance below 0.01 ether, 0.009999999999999999, rounds to a double below
\* the double of 0.01, so the test is the integer comparison.
InsufficientBalance(balance) == balance < MinBalance

(***************************************************************************)
(* State of one call.                                                      *)
(***************************************************************************)
IdleTx ==
    [pc |-> "idle", kind |-> "none", nonce |-> Null, gas |-> Null,
     maxFeePerGas |-> Null, maxPriorityFeePerGas |-> Null, gasLimit |-> Null,
     signedTransaction |-> Null, attempts |-> 0, waited |-> 0,
     rpcError |-> NoError, transactionHash |-> Undefined, receiptStatus |-> "none",
     error |-> NoError, log |-> <<>>,
     lookup |-> "none", estimated |-> "none", overwritten |-> FALSE,
     argMaxFeePerGas |-> Null, argMaxPriorityFeePerGas |-> Null]

IdleV2 ==
    [pc |-> "idle", functionName |-> "none", lookup |-> "none",
     reportedBaseFee |-> Null, baseFeePerGas |-> Null, gasPrice |-> Null,
     path |-> "none", estimated |-> "none", gas |-> Null,
     maxFeePerGas |-> Null, maxPriorityFeePerGas |-> Null]

IdleProbe ==
    [fn |-> "none", address |-> "", functionName |-> "none", ok |-> FALSE,
     input |-> Null, baseFeePerGas |-> Null, gasPrice |-> Null,
     path |-> "none", gas |-> Null,
     maxFeePerGas |-> Null, maxPriorityFeePerGas |-> Null]

Init ==
    /\ user = "none"
    /\ userNonce = 0
    /\ userBalance = 0
    /\ userAddress = ""
    /\ walletClient = "null"
    /\ providerRequests = 0
    /\ reset = EmptyBag
    /\ tx = [c \in Calls |-> IdleTx]
    /\ v2 = IdleV2
    /\ probe = IdleProbe

InFlight(c) == tx[c].pc \notin {"idle", "done"}

(***************************************************************************)
(* resetNonceAndBalance and the login effects.                             *)
(***************************************************************************)
\* resetNonceAndBalance up to its first await, as the calls it adds to those
\* in flight: nothing happens without a user or without a linked privy
\* wallet; otherwise getTransactionCount is requested for the wallet's
\* address.
ResetPrologue(u) ==
    IF u = "none" \/ PrivyAddress(u) = ""
    THEN EmptyBag
    ELSE SetToBag({[pc |-> "getTransactionCount", address |-> PrivyAddress(u),
                    nonce |-> Null]})

\* The calls of resetNonceAndBalance in flight at a position.
PendingResets(pcs) == {r \in BagToSet(reset) : r.pc \in pcs}

\* Only the nonce is written.
ResetWritesNonceOnly(nonce, balance, address) ==
    /\ userNonce' = nonce
    /\ UNCHANGED <<userBalance, userAddress>>

\* The three writes that end resetNonceAndBalance.
ResetWrites(nonce, balance, address) ==
    /\ userNonce' = nonce
    /\ userBalance' = balance
    /\ userAddress' = address

\* getWalletClient up to its await, as the number of runs that then await
\* getEthereumProvider(): it returns at once unless Privy is ready and a
\* privy wallet is among useWallets().wallets.
WalletPrologue(privyWallet) ==
    IF privyWallet THEN providerRequests + 1 ELSE providerRequests

\* usePrivy() reports another user; the effect on [user] calls
\* resetNonceAndBalance and the effect on [user, ready, wallets] calls
\* getWalletClient, whatever either call of before is doing.  privyWallet:
\* whether Privy is ready and reports a privy wallet in this render.
Login(u, privyWallet) ==
    /\ u # user
    /\ BagCardinality(reset (+) ResetPrologue(u)) <= MaxResets
    /\ WalletPrologue(privyWallet) <= MaxProviderRequests
    /\ user' = u
    /\ reset' = reset (+) ResetPrologue(u)
    /\ providerRequests' = WalletPrologue(privyWallet)
    /\ UNCHANGED <<userNonce, userBalance, userAddress, walletClient, tx, v2, probe>>

\* The component calls the exported resetNonceAndBalance, whatever the
\* calls of before are doing.
resetNonceAndBalance ==
    /\ ResetPrologue(user) # EmptyBag
    /\ BagCardinality(reset) < MaxResets
    /\ reset' = reset (+) ResetPrologue(user)
    /\ UNCHANGED <<user, userNonce, userBalance, userAddress, walletClient, providerRequests, tx, v2, probe>>

\* publicClient.getTransactionCount answers the call r; getBalance is
\* requested.
GetTransactionCountReturns(r, n) ==
    /\ r \in PendingResets({"getTransactionCount"})
    /\ reset' = (reset (-) SetToBag({r}))
                   (+) SetToBag({[r EXCEPT !.pc = "getBalance", !.nonce = n]})
    /\ UNCHANGED <<user, userNonce, userBalance, userAddress, walletClient, providerRequests, tx, v2, probe>>

\* The cache is written over under a call that has read it and has not been
\* seen to settle yet (history: whether this happened to the call).
Overwritten(t) == IF t.pc = "idle" THEN t ELSE [t EXCEPT !.overwritten = TRUE]

\* publicClient.getBalance answers the call r; the cache is written, whoever
\* the user is by now.
GetBalanceReturns(r, b) ==
    /\ r \in PendingResets({"getBalance"})
    /\ ResetWrites(r.nonce, b, r.address)
    /\ reset' = reset (-) SetToBag({r})
    /\ tx' = [c \in Calls |-> Overwritten(tx[c])]
    /\ UNCHANGED <<user, walletClient, providerRequests, v2, probe>>

\* Either node read of the call r throws: the promise of
\* resetNonceAndBalance rejects and nothing is written.
ResetReadFails(r) ==
    /\ r \in PendingResets({"getTransactionCount", "getBalance"})
    /\ reset' = reset (-) SetToBag({r})
    /\ UNCHANGED <<user, userNonce, userBalance, userAddress, walletClient, providerRequests, tx, v2, probe>>

\* ready or wallets change and the effect on [user, ready, wallets] runs
\* getWalletClient with Privy ready and a privy wallet among the wallets:
\* getEthereumProvider() is requested.
getWalletClient ==
    /\ WalletPrologue(TRUE) <= MaxProviderRequests
    /\ providerRequests' = WalletPrologue(TRUE)
    /\ UNCHANGED <<user, userNonce, userBalance, userAddress, walletClient, reset, tx, v2, probe>>

\* getEthereumProvider() answers: the wallet client is created and stored,
\* whoever the user is by now.
GetEthereumProviderReturns ==
    /\ providerRequests > 0
    /\ providerRequests' = providerRequests - 1
    /\ walletClient' = "provider"
    /\ UNCHANGED <<user, userNonce, userBalance, userAddress, reset, tx, v2, probe>>

\* getEthereumProvider() throws: nothing is stored.
GetEthereumProviderFails ==
    /\ providerRequests > 0
    /\ providerRequests' = providerRequests - 1
    /\ UNCHANGED <<user, userNonce, userBalance, userAddress, walletClient, reset, tx, v2, probe>>

(***************************************************************************)
(* sendRawTransactionAndConfirm.                                           *)
(***************************************************************************)
\* The call's promise settles: its locals are gone; what remains is what the
\* caller and the user saw (the error thrown, if any, and the notifications),
\* the nonce the call was made with and what the node answered (the error
\* of its response and the receipt status), if it did.
Done(t, error, log) ==
    [IdleTx EXCEPT !.pc = "done", !.kind = t.kind, !.nonce = t.nonce,
                   !.rpcError = t.rpcError, !.error = error, !.log = log,
                   !.overwritten = t.overwritten]

\* The catch block: toast.error, then the error is rethrown to the caller.
Failed(t, message) == Done(t, message, Append(t.log, "toast.error"))

\* The payload is posted without having been signed.
RequestSignatureSkipped(t, gasLimit) ==
    [t EXCEPT !.pc = "post", !.gasLimit = gasLimit, !.log = Append(@, "post")]

\* provider.signTransaction is requested with the resolved fields.
RequestSignature(t, gasLimit) ==
    [t EXCEPT !.pc = "sign", !.gasLimit = gasLimit,
              !.log = Append(@, "signTransaction")]

\* The gas limit is estimated whether or not the caller supplied gas.
ResolveGasLimitAlwaysEstimates(t) ==
    IF userAddress = ""
    THEN RequestSignature([t EXCEPT !.estimated = "failed"],
                          estimateGas(userAddress, FALSE, Null))
    ELSE [t EXCEPT !.pc = "estimateGas", !.log = Append(@, "estimateGas")]

\* const gasLimit = gas || await estimateGas(data), up to the await inside
\* estimateGas.
ResolveGasLimit(t) ==
    IF ~Falsy(t.gas)
    THEN RequestSignature(t, t.gas)
    ELSE IF userAddress = ""
         THEN RequestSignature([t EXCEPT !.estimated = "failed"],
                               estimateGas(userAddress, FALSE, Null))
         ELSE [t EXCEPT !.pc = "estimateGas", !.log = Append(@, "estimateGas")]

\* The gas prices are known: the locals are set and the gas limit resolved.
WithGasParams(t, gasParams) ==
    ResolveGasLimit([t EXCEPT !.maxFeePerGas = gasParams.maxFeePerGas,
                              !.maxPriorityFeePerGas = gasParams.maxPriorityFeePerGas])

\* The call with its arguments bound.
WithArguments(t, gas, maxFeePerGas, maxPriorityFeePerGas) ==
    [t EXCEPT !.gas = gas, !.argMaxFeePerGas = maxFeePerGas,
              !.argMaxPriorityFeePerGas = maxPriorityFeePerGas]

\* sendRawTransactionAndConfirm without the checks of the wallet client and
\* of the cached address.
sendRawTransactionAndConfirmUnchecked(t, gas, maxFeePerGas, maxPriorityFeePerGas) ==
    IF ~Falsy(maxFeePerGas) /\ ~Falsy(maxPriorityFeePerGas)
    THEN WithGasParams(WithArguments(t, gas, maxFeePerGas, maxPriorityFeePerGas),
                       [maxFeePerGas |-> maxFeePerGas,
                        maxPriorityFeePerGas |-> maxPriorityFeePerGas])
    ELSE [WithArguments(t, gas, maxFeePerGas, maxPriorityFeePerGas)
            EXCEPT !.pc = "getBlock", !.log = Append(@, "getBlock")]

\* sendRawTransactionAndConfirm from its call to its first pending await.
sendRawTransactionAndConfirm(t, gas, maxFeePerGas, maxPriorityFeePerGas) ==
    IF walletClient = "null"
    THEN Failed(t, "Wallet not found.")
    ELSE IF userAddress = ""
    THEN Failed(t, "Privy user not found.")
    ELSE IF ~Falsy(maxFeePerGas) /\ ~Falsy(maxPriorityFeePerGas)
    THEN WithGasParams(WithArguments(t, gas, maxFeePerGas, maxPriorityFeePerGas),
                       [maxFeePerGas |-> maxFeePerGas,
                        maxPriorityFeePerGas |-> maxPriorityFeePerGas])
    ELSE [WithArguments(t, gas, maxFeePerGas, maxPriorityFeePerGas)
            EXCEPT !.pc = "getBlock", !.log = Append(@, "getBlock")]

\* publicClient.getBlock() settles inside getCurrentGasPrices.
GetBlockReturns(c, ok, baseFee) ==
    /\ tx[c].pc = "getBlock"
    /\ tx' = [tx EXCEPT ![c] =
                WithGasParams([@ EXCEPT !.lookup = IF ok THEN "ok" ELSE "failed"],
                              getCurrentGasPrices(ok, baseFee))]
    /\ UNCHANGED <<user, userNonce, userBalance, userAddress, walletClient, providerRequests, reset, v2, probe>>

\* publicClient.estimateGas settles inside estimateGas.
EstimateGasReturns(c, ok, estimatedGas) ==
    /\ tx[c].pc = "estimateGas"
    /\ tx' = [tx EXCEPT ![c] =
                RequestSignature(
                    [@ EXCEPT !.estimated = IF ok /\ userAddress # ""
                                            THEN "ok" ELSE "failed"],
                    estimateGas(userAddress, ok, estimatedGas))]
    /\ UNCHANGED <<user, userNonce, userBalance, userAddress, walletClient, providerRequests, reset, v2, probe>>


\* The payload signed with the nonce the cache holds at signing time.
PostSignedCacheNonce(t) ==
    [t EXCEPT !.pc = "post", !.signedTransaction = userNonce,
              !.gas = Null, !.gasLimit = Null,
              !.maxFeePerGas = Null, !.maxPriorityFeePerGas = Null,
              !.lookup = "none", !.estimated = "none",
              !.argMaxFeePerGas = Null, !.argMaxPriorityFeePerGas = Null,
              !.log = Append(@, "post")]

\* The signed payload binds the nonce of the request; it is posted as the
\* parameter of eth_sendRawTransaction.  The gas locals are not read again.
PostSigned(t) ==
    [t EXCEPT !.pc = "post", !.signedTransaction = t.nonce,
              !.gas = Null, !.gasLimit = Null,
              !.maxFeePerGas = Null, !.maxPriorityFeePerGas = Null,
              !.lookup = "none", !.estimated = "none",
              !.argMaxFeePerGas = Null, !.argMaxPriorityFeePerGas = Null,
              !.log = Append(@, "post")]

\* provider.signTransaction resolves with the signed payload.
SignReturns(c) ==
    /\ tx[c].pc = "sign"
    /\ tx' = [tx EXCEPT ![c] = PostSigned(@)]
    /\ UNCHANGED <<user, userNonce, userBalance, userAddress, walletClient, providerRequests, reset, v2, probe>>

\* provider.signTransaction rejects (the wallet refuses to sign).
SignRejects(c) ==
    /\ tx[c].pc = "sign"
    /\ tx' = [tx EXCEPT ![c] = Failed(@, "User rejected the request.")]
    /\ UNCHANGED <<user, userNonce, userBalance, userAddress, walletClient, providerRequests, reset, v2, probe>>

\* post({..., retries, retryDelay}) on a transport failure of one attempt:
\* while retries are left it waits retryDelay and posts the same payload
\* again; after the last one the failure is thrown.
post(t, retries, retryDelay) ==
    IF t.attempts < retries
    THEN [t EXCEPT !.attempts = @ + 1, !.waited = @ + retryDelay,
                   !.log = Append(@, "post")]
    ELSE Failed(t, "Failed to fetch")

\* One attempt of the post fails in transport.
PostTransportFails(c) ==
    /\ tx[c].pc = "post"
    /\ tx' = [tx EXCEPT ![c] = post(@, Retries, RetryDelay)]
    /\ UNCHANGED <<user, userNonce, userBalance, userAddress, walletClient, providerRequests, reset, v2, probe>>

\* The error payload is not looked at.
AfterPostUnchecked(t, response) ==
    [t EXCEPT !.pc = "receipt", !.transactionHash = response.result,
              !.log = @ \o <<"toast.info", "waitForTransactionReceipt">>]

\* The lines after `await post(...)`: an error payload is thrown; otherwise
\* response.result is taken as the hash, toast.info fires and
\* waitForTransactionReceipt is called.
AfterPost(t, response) ==
    IF response.error # NoError
    THEN Failed(t, response.error)
    ELSE [t EXCEPT !.pc = "receipt", !.transactionHash = response.result,
                   !.log = @ \o <<"toast.info", "waitForTransactionReceipt">>]

\* The post resolves with the node's JSON-RPC response.
PostReturns(c, response) ==
    /\ tx[c].pc = "post"
    /\ tx' = [tx EXCEPT ![c] = AfterPost([@ EXCEPT !.rpcError = response.error], response)]
    /\ UNCHANGED <<user, userNonce, userBalance, userAddress, walletClient, providerRequests, reset, v2, probe>>

\* The receipt's status is not looked at.
AfterReceiptUnchecked(t, status) ==
    [Done(t, NoError, Append(t.log, "toast.success")) EXCEPT !.receiptStatus = status]

\* "Confirmed" is notified before the status of the receipt is looked at.
AfterReceiptConfirmsFirst(t, status) ==
    IF status = "reverted"
    THEN [Failed([t EXCEPT !.log = Append(@, "toast.success")],
                 "Failed to confirm transaction") EXCEPT !.receiptStatus = status]
    ELSE [Done(t, NoError, Append(t.log, "toast.success")) EXCEPT !.receiptStatus = status]

\* The lines after `await waitForTransactionReceipt(...)`.
AfterReceipt(t, status) ==
    IF status = "reverted"
    THEN [Failed(t, "Failed to confirm transaction") EXCEPT !.receiptStatus = status]
    ELSE [Done(t, NoError, Append(t.log, "toast.success")) EXCEPT !.receiptStatus = status]

\* The node reports the receipt of the submitted hash.
ReceiptReturns(c, status) ==
    /\ tx[c].pc = "receipt"
    /\ tx[c].transactionHash # Undefined
    /\ tx' = [tx EXCEPT ![c] = AfterReceipt(@, status)]
    /\ UNCHANGED <<user, userNonce, userBalance, userAddress, walletClient, providerRequests, reset, v2, probe>>

\* waitForTransactionReceipt rejects (its transport fails, or the hash is
\* not one).
ReceiptWaitFails(c) ==
    /\ tx[c].pc = "receipt"
    /\ tx' = [tx EXCEPT ![c] = Failed(@, "The request failed.")]
    /\ UNCHANGED <<user, userNonce, userBalance, userAddress, walletClient, providerRequests, reset, v2, probe>>

(***************************************************************************)
(* The domain operations.                                                  *)
(***************************************************************************)
\* The increment forgotten: the cache keeps the nonce just used.
NextNonceStale(nonce) == nonce

\* userNonce.current = nonce + 1
NextNonce(nonce) == nonce + 1

\* The charge forgotten: the cached balance is left as it was.
ChargedBalanceFree(balance, cost) == balance

\* userBalance.current = balance - parseEther(cost)
ChargedBalance(balance, cost) == balance - cost

\* The body shared by initializeGameTransaction and playNewMoveTransaction:
\* the balance check, the optimistic update of the cache, then
\* sendRawTransactionAndConfirm with no gas argument.
DomainOperation(c, kind, cost) ==
    /\ tx[c].pc = "idle"
    /\ userNonce < MaxNonce
    /\ IF InsufficientBalance(userBalance)
       THEN /\ tx' = [tx EXCEPT ![c] =
                        Done([IdleTx EXCEPT !.kind = kind],
                             "Signer has insufficient balance.", <<>>)]
            /\ UNCHANGED <<userNonce, userBalance>>
       ELSE /\ userNonce' = NextNonce(userNonce)
            /\ userBalance' = ChargedBalance(userBalance, cost)
            /\ tx' = [tx EXCEPT ![c] =
                        sendRawTransactionAndConfirm(
                            [IdleTx EXCEPT !.kind = kind, !.nonce = userNonce],
                            Null, Null, Null)]
    /\ UNCHANGED <<user, userAddress, walletClient, providerRequests, reset, v2, probe>>

initializeGameTransaction(c) == DomainOperation(c, "startGame", InitCost)

playNewMoveTransaction(c) == DomainOperation(c, "play", PlayCost)

\* The caller has seen the call's promise settle; the slot is free again.
Settled(c) ==
    /\ tx[c].pc = "done"
    /\ tx' = [tx EXCEPT ![c] = IdleTx]
    /\ UNCHANGED <<user, userNonce, userBalance, userAddress, walletClient, providerRequests, reset, v2, probe>>

\* One step of the hook and its environment, with domain operations called
\* in the slots cs.
Step(cs) ==
    \/ \E u \in Users, privyWallet \in BOOLEAN : Login(u, privyWallet)
    \/ resetNonceAndBalance
    \/ \E r \in BagToSet(reset), n \in NodeNonces : GetTransactionCountReturns(r, n)
    \/ \E r \in BagToSet(reset), b \in NodeBalances : GetBalanceReturns(r, b)
    \/ \E r \in BagToSet(reset) : ResetReadFails(r)
    \/ getWalletClient
    \/ GetEthereumProviderReturns
    \/ GetEthereumProviderFails
    \/ \E c \in cs : initializeGameTransaction(c)
    \/ \E c \in cs : playNewMoveTransaction(c)
    \/ \E c \in cs, ok \in BOOLEAN, baseFee \in BaseFees : GetBlockReturns(c, ok, baseFee)
    \/ \E c \in cs, ok \in BOOLEAN, g \in GasEstimates : EstimateGasReturns(c, ok, g)
    \/ \E c \in cs : SignReturns(c)
    \/ \E c \in cs : SignRejects(c)
    \/ \E c \in cs : PostTransportFails(c)
    \/ \E c \in cs, response \in Responses : PostReturns(c, response)
    \/ \E c \in cs, status \in ReceiptStatuses : ReceiptReturns(c, status)
    \/ \E c \in cs : ReceiptWaitFails(c)
    \/ \E c \in cs : Settled(c)

\* The caller awaits each domain operation before it calls the next: one
\* call in flight at a time, interleaved with the login effects.
Next == Step({"c1"})

Spec == Init /\ [][Next]_vars

\* Gas arguments a caller of sendRawTransactionAndConfirm may supply: none,
\* 0n, a value (wei for the fees).
SuppliedGas == {Null, 0, 50000}

SuppliedMaxFees == {Null, 0, 1500000000}

SuppliedTips == {Null, 0, 100000000}

\* sendRawTransactionAndConfirm is called with gas arguments, with the
\* cached nonce as its nonce (the domain operations of this file supply
\* none; the parameters are there for other callers inside the hook).
CallSendRawTransactionAndConfirm(c, gas, maxFeePerGas, maxPriorityFeePerGas) ==
    /\ tx[c].pc = "idle"
    /\ tx' = [tx EXCEPT ![c] =
                sendRawTransactionAndConfirm(
                    [IdleTx EXCEPT !.kind = "direct", !.nonce = userNonce],
                    gas, maxFeePerGas, maxPriorityFeePerGas)]
    /\ UNCHANGED <<user, userNonce, userBalance, userAddress, walletClient, providerRequests, reset, v2, probe>>

NextDirect ==
    \/ Next
    \/ \E gas \in SuppliedGas, maxFeePerGas \in SuppliedMaxFees,
          maxPriorityFeePerGas \in SuppliedTips :
            CallSendRawTransactionAndConfirm("c1", gas, maxFeePerGas,
                                             maxPriorityFeePerGas)

SpecDirect == Init /\ [][NextDirect]_vars

\* waitForTransactionReceipt settles, either way.
ReceiptSettles(c) ==
    \/ \E status \in ReceiptStatuses : ReceiptReturns(c, status)
    \/ ReceiptWaitFails(c)

\* The node answers every receipt wait in the end: a wait that can settle
\* does not stay pending forever.
SpecAnswered == Spec /\ WF_vars(ReceiptSettles("c1"))

\* The caller does not await: domain operations overlap.
NextOverlapping == Step(Calls)

SpecOverlapping == Init /\ [][NextOverlapping]_vars

\* One login session with overlapping domain operations: the user logs in
\* once and stays; the component may call resetNonceAndBalance at any time
\* but starts a call of it only when none is in flight; ready and wallets do
\* not change once the wallet client is stored.
NextSession ==
    /\ NextOverlapping
    /\ user = "none" \/ user' = user
    /\ BagCardinality(reset') > BagCardinality(reset) => reset = EmptyBag
    /\ walletClient = "provider" => providerRequests' <= providerRequests

SpecSession == Init /\ [][NextSession]_vars


(***************************************************************************)
(* v2: getOptimizedGasConfig, startGame and playMove (src/README.md).      *)
(* Gas prices are in gwei.                                                 *)
(***************************************************************************)
\* viem parseEther, from units of 0.0001 ether to gwei.
GweiPerTenthMilliEther == 100000

parseEther(tenthMilliEther) == tenthMilliEther * GweiPerTenthMilliEther

\* parseEther('0.001'): the base-fee fallback and the tier threshold.
BaseFeeFallback == 10

\* parseEther('0.002'): the gas-price fallback.
GasPriceFallback == 20

\* parseEther('0.0005') and parseEther('0.002'): the tiered tip.
LowTip == 5

HighTip == 20

\* parseEther('0.01'): maxFeePerGas of the outer catch.
CatchMaxFee == 100

\* (estimatedGas * 125n) / 100n
GasBufferPercentV2 == 125

\* functionName === 'startGame' ? 150000n : 100000n
StartGameFallbackGas == 150000

PlayFallbackGas == 100000

\* block.baseFeePerGas and getGasPrice() answers, in gwei: missing, 0, 1,
\* just below and at the tier threshold, above it.
BaseFeesV2 == {Null, 0, 1, 999999, 1000000, 3000000}

GasPricesV2 == {Null, 0, 1, 2000000, 9000000}

GasEstimatesV2 == {21000, 95432}

FunctionNames == {"startGame", "play"}

\* One fallback for every function, as in v1.
FallbackGasV2Single(functionName) == PlayFallbackGas

\* gasLimit = functionName === 'startGame' ? 150000n : 100000n
FallbackGasV2(functionName) ==
    IF functionName = "startGame" THEN StartGameFallbackGas ELSE PlayFallbackGas

\* The buffered estimate rounded up instead of down.
GasLimitV2Ceiling(functionName, ok, estimatedGas) ==
    IF ok
    THEN ((estimatedGas * GasBufferPercentV2) + 99) \div 100
    ELSE FallbackGasV2(functionName)

\* The inner try around publicClient.estimateGas: the estimate with its
\* buffer, or the fallback of the function when anything in it throws.
GasLimitV2(functionName, ok, estimatedGas) ==
    IF ok
    THEN (estimatedGas * GasBufferPercentV2) \div 100
    ELSE FallbackGasV2(functionName)

\* The version of the pricing that v1 ships: no tip in the cap, no
\* validation.
OptimizedPricingNoTip(baseFeePerGas, gasPrice) ==
    [maxFeePerGas |-> baseFeePerGas * 2,
     maxPriorityFeePerGas |->
        IF baseFeePerGas < parseEther(BaseFeeFallback)
        THEN parseEther(LowTip) ELSE parseEther(HighTip),
     path |-> "normal"]

\* The pricing without the gas-price based cap.
OptimizedPricingIgnoresGasPrice(baseFeePerGas, gasPrice) ==
    LET maxPriorityFeePerGas ==
            IF baseFeePerGas < parseEther(BaseFeeFallback)
            THEN parseEther(LowTip)
            ELSE parseEther(HighTip)
    IN  [maxFeePerGas |-> (baseFeePerGas * 2) + maxPriorityFeePerGas,
         maxPriorityFeePerGas |-> maxPriorityFeePerGas,
         path |-> "normal"]

\* The validation that lets a cap equal to the tip through.
OptimizedPricingValidatesBelowOnly(baseFeePerGas, gasPrice) ==
    LET maxPriorityFeePerGas ==
            IF baseFeePerGas < parseEther(BaseFeeFallback)
            THEN parseEther(LowTip)
            ELSE parseEther(HighTip)
        calculatedMaxFee == (baseFeePerGas * 2) + maxPriorityFeePerGas
        gasPriceBasedFee == gasPrice + maxPriorityFeePerGas
        maxFeePerGas ==
            IF calculatedMaxFee > gasPriceBasedFee
            THEN calculatedMaxFee ELSE gasPriceBasedFee
    IN  IF maxPriorityFeePerGas > maxFeePerGas
        THEN [maxFeePerGas |-> maxPriorityFeePerGas * 3,
              maxPriorityFeePerGas |-> maxPriorityFeePerGas,
              path |-> "adjusted"]
        ELSE [maxFeePerGas |-> maxFeePerGas,
              maxPriorityFeePerGas |-> maxPriorityFeePerGas,
              path |-> "normal"]

\* "Calculate proper EIP-1559 gas pricing" and the validation check: the
\* fees returned and the return statement that returns them.
OptimizedPricing(baseFeePerGas, gasPrice) ==
    LET maxPriorityFeePerGas ==
            IF baseFeePerGas < parseEther(BaseFeeFallback)
            THEN parseEther(LowTip)
            ELSE parseEther(HighTip)
        calculatedMaxFee == (baseFeePerGas * 2) + maxPriorityFeePerGas
        gasPriceBasedFee == gasPrice + maxPriorityFeePerGas
        maxFeePerGas ==
            IF calculatedMaxFee > gasPriceBasedFee
            THEN calculatedMaxFee ELSE gasPriceBasedFee
    IN  IF maxPriorityFeePerGas >= maxFeePerGas
        THEN [maxFeePerGas |-> maxPriorityFeePerGas * 3,
              maxPriorityFeePerGas |-> maxPriorityFeePerGas,
              path |-> "adjusted"]
        ELSE [maxFeePerGas |-> maxFeePerGas,
              maxPriorityFeePerGas |-> maxPriorityFeePerGas,
              path |-> "normal"]

\* getOptimizedGasConfig is called (by startGame or playMove) and awaits
\* publicClient.getBlock.
CallGetOptimizedGasConfig(functionName) ==
    /\ v2.pc \in {"idle", "written"}
    /\ v2' = [IdleV2 EXCEPT !.pc = "getBlock", !.functionName = functionName]
    /\ UNCHANGED <<v1vars, probe>>

startGame == CallGetOptimizedGasConfig("startGame")

playMove == CallGetOptimizedGasConfig("play")

\* A catch that keeps a base fee the block had already reported.
LookupFailedKeepsBaseFee(t) ==
    [t EXCEPT !.pc = "estimateGas", !.lookup = "failed",
              !.baseFeePerGas = IF t.baseFeePerGas = Null
                                THEN parseEther(BaseFeeFallback) ELSE @,
              !.gasPrice = parseEther(GasPriceFallback)]

\* The catch of the network lookup: both values are the fallbacks.
LookupFailed(t) ==
    [t EXCEPT !.pc = "estimateGas", !.lookup = "failed",
              !.baseFeePerGas = parseEther(BaseFeeFallback),
              !.gasPrice = parseEther(GasPriceFallback)]

\* publicClient.getBlock settles.
V2GetBlockReturns(ok, baseFee) ==
    /\ v2.pc = "getBlock"
    /\ v2' = IF ok
             THEN [v2 EXCEPT !.pc = "getGasPrice", !.reportedBaseFee = baseFee,
                             !.baseFeePerGas =
                                IF Falsy(baseFee)
                                THEN parseEther(BaseFeeFallback) ELSE baseFee]
             ELSE LookupFailed(v2)
    /\ UNCHANGED <<v1vars, probe>>

\* publicClient.getGasPrice settles.
V2GetGasPriceReturns(ok, price) ==
    /\ v2.pc = "getGasPrice"
    /\ v2' = IF ok
             THEN [v2 EXCEPT !.pc = "estimateGas", !.lookup = "ok",
                             !.gasPrice =
                                IF Falsy(price)
                                THEN parseEther(GasPriceFallback) ELSE price]
             ELSE LookupFailed(v2)
    /\ UNCHANGED <<v1vars, probe>>

\* publicClient.estimateGas settles; the pricing is computed and the
\* configuration returned.
V2EstimateGasReturns(ok, estimatedGas) ==
    /\ v2.pc = "estimateGas"
    /\ LET pricing == OptimizedPricing(v2.baseFeePerGas, v2.gasPrice)
       IN  v2' = [v2 EXCEPT !.pc = "returned",
                            !.estimated = IF ok THEN "ok" ELSE "failed",
                            !.gas = GasLimitV2(v2.functionName, ok, estimatedGas),
                            !.maxFeePerGas = pricing.maxFeePerGas,
                            !.maxPriorityFeePerGas = pricing.maxPriorityFeePerGas,
                            !.path = pricing.path]
    /\ UNCHANGED <<v1vars, probe>>

\* The outer catch: an exception that no inner handler caught ends the call
\* with the fixed configuration.
V2OuterCatch ==
    /\ v2.pc \in {"getBlock", "getGasPrice", "estimateGas"}
    /\ v2' = [v2 EXCEPT !.pc = "returned",
                        !.gas = FallbackGasV2(v2.functionName),
                        !.maxFeePerGas = parseEther(CatchMaxFee),
                        !.maxPriorityFeePerGas = parseEther(HighTip),
                        !.path = "fallback"]
    /\ UNCHANGED <<v1vars, probe>>

\* startGame / playMove pass the configuration to writeContract and return;
\* the configuration written stays on record until the next call.
V2WriteContract ==
    /\ v2.pc = "returned"
    /\ v2' = [v2 EXCEPT !.pc = "written"]
    /\ UNCHANGED <<v1vars, probe>>

NextV2 ==
    \/ startGame
    \/ playMove
    \/ \E ok \in BOOLEAN, baseFee \in BaseFeesV2 : V2GetBlockReturns(ok, baseFee)
    \/ \E ok \in BOOLEAN, price \in GasPricesV2 : V2GetGasPriceReturns(ok, price)
    \/ \E ok \in BOOLEAN, g \in GasEstimatesV2 : V2EstimateGasReturns(ok, g)
    \/ V2OuterCatch
    \/ V2WriteContract

SpecV2 == Init /\ [][NextV2]_vars

(***************************************************************************)
(* The gas-limit and gas-price functions applied on their own, to every    *)
(* answer of a range.                                                      *)
(***************************************************************************)
\* Gas estimates 0..MaxEstimatedGas are tried, next to the examples.
MaxEstimatedGas == 120

EstimatedGasValues == (0..MaxEstimatedGas) \cup GasEstimates \cup GasEstimatesV2

Addresses == {PrivyAddress(u) : u \in Users}

\* estimateGas(data) of v1 with userAddress.current = address.
ApplyEstimateGas(address, ok, estimatedGas) ==
    /\ probe' = [IdleProbe EXCEPT !.fn = "estimateGas", !.address = address,
                                  !.ok = ok, !.input = estimatedGas,
                                  !.gas = estimateGas(address, ok, estimatedGas)]
    /\ UNCHANGED <<v1vars, v2>>

\* The gas limit of getOptimizedGasConfig(data, functionName) of v2.
ApplyGasLimitV2(functionName, ok, estimatedGas) ==
    /\ probe' = [IdleProbe EXCEPT !.fn = "getOptimizedGasConfig",
                                  !.functionName = functionName,
                                  !.ok = ok, !.input = estimatedGas,
                                  !.gas = GasLimitV2(functionName, ok, estimatedGas)]
    /\ UNCHANGED <<v1vars, v2>>

\* getCurrentGasPrices() of v1.
ApplyGetCurrentGasPrices(ok, baseFee) ==
    /\ LET gasParams == getCurrentGasPrices(ok, baseFee)
       IN  probe' = [IdleProbe EXCEPT !.fn = "getCurrentGasPrices",
                                      !.ok = ok, !.input = baseFee,
                                      !.maxFeePerGas = gasParams.maxFeePerGas,
                                      !.maxPriorityFeePerGas =
                                          gasParams.maxPriorityFeePerGas]
    /\ UNCHANGED <<v1vars, v2>>

\* Values of the locals baseFeePerGas and gasPrice the pricing lines are
\* applied to: those a node answer leads to, and zero and a negative
\* number, which the || fallbacks and the node's unsigned quantities keep
\* out of a call of getOptimizedGasConfig.
LocalFees == {-5, 0} \cup (BaseFeesV2 \ {Null}) \cup (GasPricesV2 \ {Null})

\* The lines of getOptimizedGasConfig (v2) after the network lookup: the
\* gas limit, the pricing, the validation and the return.
ApplyOptimizedPricing(functionName, ok, estimatedGas, baseFeePerGas, gasPrice) ==
    /\ LET pricing == OptimizedPricing(baseFeePerGas, gasPrice)
       IN  probe' = [IdleProbe EXCEPT
                        !.fn = "pricing", !.functionName = functionName,
                        !.ok = ok, !.input = estimatedGas,
                        !.baseFeePerGas = baseFeePerGas, !.gasPrice = gasPrice,
                        !.gas = GasLimitV2(functionName, ok, estimatedGas),
                        !.maxFeePerGas = pricing.maxFeePerGas,
                        !.maxPriorityFeePerGas = pricing.maxPriorityFeePerGas,
                        !.path = pricing.path]
    /\ UNCHANGED <<v1vars, v2>>

NextFunctions ==
    \/ \E address \in Addresses, ok \in BOOLEAN, g \in EstimatedGasValues :
            ApplyEstimateGas(address, ok, g)
    \/ \E functionName \in FunctionNames, ok \in BOOLEAN, g \in EstimatedGasValues :
            ApplyGasLimitV2(functionName, ok, g)
    \/ \E ok \in BOOLEAN, baseFee \in BaseFees : ApplyGetCurrentGasPrices(ok, baseFee)
    \/ \E functionName \in FunctionNames, ok \in BOOLEAN, g \in GasEstimatesV2,
          baseFeePerGas \in LocalFees, gasPrice \in LocalFees :
            ApplyOptimizedPricing(functionName, ok, g, baseFeePerGas, gasPrice)

SpecFunctions == Init /\ [][NextFunctions]_vars


(***************************************************************************)
(* Properties.                                                             *)
(***************************************************************************)
\* How often event e is in log, and whether it is.
Count(log, e) == Cardinality({i \in 1..Len(log) : log[i] = e})

Has(log, e) == Count(log, e) > 0

\* Every a in log has a b somewhere before it.
Preceded(log, a, b) ==
    \A i \in 1..Len(log) : log[i] = a => \E j \in 1..(i - 1) : log[j] = b

\* C1: every gas configuration that getOptimizedGasConfig (v2) returns, by
\* any of its return statements and whatever the node reported, has
\* maxFeePerGas strictly above maxPriorityFeePerGas.
C1_MaxFeeAboveTip ==
    v2.pc \in {"returned", "written"} => v2.maxFeePerGas > v2.maxPriorityFeePerGas

\* C1 witness: a configuration returned by the normal return after the
\* block reported a zero base fee.
C1_Witness ==
    /\ v2.pc = "returned"
    /\ v2.path = "normal"
    /\ v2.lookup = "ok"
    /\ v2.reportedBaseFee = 0

\* C2: every transaction a v1 domain operation hands to signTransaction has
\* maxFeePerGas strictly above maxPriorityFeePerGas.
C2_SignedMaxFeeAboveTip ==
    \A c \in Calls :
        tx[c].pc = "sign" => tx[c].maxFeePerGas > tx[c].maxPriorityFeePerGas

\* C3: a domain operation that ends without an error has notified
\* "submitted" once and then "confirmed" once, and leaves the cached nonce
\* exactly one above the nonce it found.
C3_SuccessNotifiesInOrderAndAdvancesNonce ==
    \A c \in Calls :
        (tx[c].pc = "done" /\ tx[c].error = NoError) =>
            /\ Count(tx[c].log, "toast.info") = 1
            /\ Count(tx[c].log, "toast.success") = 1
            /\ Preceded(tx[c].log, "toast.success", "toast.info")
            /\ userNonce = tx[c].nonce + 1

\* C4: in every run of sendRawTransactionAndConfirm the payload is posted
\* only after signTransaction was requested and has returned it, and the
\* receipt wait starts only after the post, and never after an error.
C4_SignThenSubmitThenWait ==
    \A c \in Calls :
        /\ Preceded(tx[c].log, "post", "signTransaction")
        /\ Preceded(tx[c].log, "waitForTransactionReceipt", "post")
        /\ Preceded(tx[c].log, "toast.info", "post")
        /\ tx[c].pc \in {"post", "receipt"} =>
              /\ tx[c].signedTransaction # Null
              /\ tx[c].signedTransaction = tx[c].nonce
        /\ \A i \in 1..Len(tx[c].log) :
              tx[c].log[i] = "toast.error" => i = Len(tx[c].log)

\* C4 witness: a call waiting for its receipt.
C4_Witness ==
    /\ tx["c1"].pc = "receipt"
    /\ tx["c1"].log = <<"getBlock", "estimateGas", "signTransaction", "post",
                        "toast.info", "waitForTransactionReceipt">>

\* C5: the "submitted" notification and the receipt wait happen only with a
\* transaction hash returned by eth_sendRawTransaction.
C5_SubmittedOnlyWithHash ==
    \A c \in Calls :
        tx[c].pc = "receipt" => tx[c].transactionHash # Undefined

\* C6: when the response of eth_sendRawTransaction carries an error, the
\* call ends with that error's message thrown, and after the post that got
\* the response it has only notified the failure: no further post, no
\* "submitted" notification, no receipt wait.
C6_ErrorPayloadFailsAtOnce ==
    \A c \in Calls :
        tx[c].rpcError # NoError =>
            /\ tx[c].pc = "done"
            /\ tx[c].error = tx[c].rpcError
            /\ Len(tx[c].log) >= 2
            /\ tx[c].log[Len(tx[c].log) - 1] = "post"
            /\ tx[c].log[Len(tx[c].log)] = "toast.error"
            /\ ~Has(tx[c].log, "toast.info")
            /\ ~Has(tx[c].log, "waitForTransactionReceipt")

\* C6 witness: the call failed with the node's message on the first post.
C6_Witness ==
    /\ tx["c1"].pc = "done"
    /\ tx["c1"].rpcError = "nonce too low"
    /\ tx["c1"].error = "nonce too low"
    /\ Count(tx["c1"].log, "post") = 1

\* C7: a domain operation called with a cached balance below 0.01 ether (100
\* units) ends at once with the insufficient-balance error, with no network
\* call and no signature request, and leaves the cached nonce and balance
\* as they were.
C7_LowBalanceFailsBeforeAnyCall ==
    /\ [](\A c \in Calls :
            tx[c].error = "Signer has insufficient balance." =>
                tx[c].pc = "done" /\ tx[c].log = <<>>)
    /\ [][\A c \in Calls :
            (tx[c].pc = "idle" /\ tx'[c].pc # "idle" /\ userBalance < 100) =>
                /\ tx'[c].pc = "done"
                /\ tx'[c].error = "Signer has insufficient balance."
                /\ tx'[c].log = <<>>
                /\ userNonce' = userNonce
                /\ userBalance' = userBalance]_vars

\* C7 witness: refused with a balance just below the threshold, with the
\* wallet client and the address in place.
C7_Witness ==
    /\ tx["c1"].pc = "done"
    /\ tx["c1"].error = "Signer has insufficient balance."
    /\ userBalance = 99
    /\ walletClient = "provider"

\* C8: every domain operation that ends with an error has notified the
\* failure (toast.error).
C8_EveryErrorNotified ==
    \A c \in Calls :
        (tx[c].pc = "done" /\ tx[c].error # NoError) => Has(tx[c].log, "toast.error")

\* C9: with a reverted receipt the call fails with the reverted error and
\* never notifies "confirmed"; with any other receipt it notifies
\* "confirmed" and returns normally.
C9_RevertedFailsElseConfirmed ==
    \A c \in Calls :
        /\ tx[c].receiptStatus = "reverted" =>
              /\ tx[c].pc = "done"
              /\ tx[c].error = "Failed to confirm transaction"
              /\ ~Has(tx[c].log, "toast.success")
              /\ tx[c].log[Len(tx[c].log)] = "toast.error"
        /\ tx[c].receiptStatus = "success" =>
              /\ tx[c].pc = "done"
              /\ tx[c].error = NoError
              /\ tx[c].log[Len(tx[c].log)] = "toast.success"
              /\ ~Has(tx[c].log, "toast.error")

\* C9 witness: a call ended by a reverted receipt.
C9_Witness ==
    /\ tx["c1"].pc = "done"
    /\ tx["c1"].receiptStatus = "reverted"

\* C10: the submission is attempted again after a transport failure at most
\* 3 times, 2000 ms apart; with up to 3 failures a later success still
\* enters Submitted; the transport failure is thrown only after the fourth
\* attempt failed, and then nothing is posted again.
C10_BoundedRetries ==
    /\ [](\A c \in Calls :
            /\ tx[c].attempts <= 3
            /\ tx[c].waited = 2000 * tx[c].attempts
            /\ tx[c].pc \in {"post", "receipt"} =>
                  Count(tx[c].log, "post") = tx[c].attempts + 1
            /\ Count(tx[c].log, "post") <= 4
            /\ tx[c].error = "Failed to fetch" =>
                  /\ tx[c].pc = "done"
                  /\ Count(tx[c].log, "post") = 4
                  /\ ~Has(tx[c].log, "toast.info"))
    /\ [][\A c \in Calls :
            (tx[c].pc = "post" /\ tx[c].attempts < 3) =>
                tx'[c].error # "Failed to fetch"]_vars

\* C10 witness: three transport failures, then a hash: Submitted.
C10_Witness ==
    /\ tx["c1"].pc = "receipt"
    /\ tx["c1"].attempts = 3
    /\ tx["c1"].waited = 6000
    /\ tx["c1"].transactionHash = "0xabc"

\* C11: whenever the gas estimation of getOptimizedGasConfig (v2) throws, the
\* gas limit returned is 150000 for startGame and 100000 for play, whatever
\* the node reported for the base fee and the gas price.
C11_EstimationFailureGivesFunctionFallback ==
    (v2.pc \in {"returned", "written"} /\ v2.estimated = "failed") =>
        v2.gas = IF v2.functionName = "startGame" THEN 150000 ELSE 100000

\* C11 witness: startGame's estimation failed after a successful lookup of a
\* base fee above the tier threshold.
C11_Witness ==
    /\ v2.pc = "returned"
    /\ v2.estimated = "failed"
    /\ v2.functionName = "startGame"
    /\ v2.lookup = "ok"
    /\ v2.reportedBaseFee = 3000000
    /\ v2.gas = 150000

\* C12: when the estimation inside estimateGas (v1) fails, the call goes on
\* to request the signature with gas limit 100000 and without an error, for
\* startGame and for play alike; and estimateGas returns 100000 as well
\* whenever the cached address is empty, whatever the node would answer.
C12_EstimateFailureContinuesWithFallback ==
    /\ \A c \in Calls :
          tx[c].estimated = "failed" =>
              /\ tx[c].pc = "sign"
              /\ tx[c].gasLimit = 100000
              /\ tx[c].error = NoError
              /\ tx[c].log[Len(tx[c].log)] = "signTransaction"
    /\ \A ok \in BOOLEAN, g \in GasEstimates : estimateGas("", ok, g) = 100000

\* C12 witness: a startGame call at the signature request after its
\* estimation failed.
C12_Witness ==
    /\ tx["c1"].pc = "sign"
    /\ tx["c1"].kind = "startGame"
    /\ tx["c1"].estimated = "failed"
    /\ tx["c1"].gasLimit = 100000

\* C13: whenever publicClient.getBlock() fails inside getCurrentGasPrices
\* (v1), the prices used are maxFeePerGas = 2 gwei and maxPriorityFeePerGas
\* = 1 gwei, in every call and after every earlier answer of the node.
C13_LookupFailureGivesFallbackPrices ==
    \A c \in Calls :
        tx[c].lookup = "failed" =>
            /\ tx[c].maxFeePerGas = 2000000000
            /\ tx[c].maxPriorityFeePerGas = 1000000000

\* C13 witness: a second call (the cached nonce was advanced by the first)
\* whose block lookup failed.
C13_Witness ==
    /\ tx["c1"].lookup = "failed"
    /\ tx["c1"].nonce = 1
    /\ tx["c1"].maxFeePerGas = 2000000000

\* C14 as stated: whenever the network lookup of getOptimizedGasConfig (v2)
\* fails, the pricing returned is maxFeePerGas = parseEther('0.01') and
\* maxPriorityFeePerGas = parseEther('0.002') (in gwei).
C14_LookupFailureGivesCatchTuple ==
    (v2.pc \in {"returned", "written"} /\ v2.lookup = "failed") =>
        /\ v2.maxFeePerGas = 10000000
        /\ v2.maxPriorityFeePerGas = 2000000

\* C14 amended: after a failed network lookup getOptimizedGasConfig (v2)
\* prices from the fallbacks of its inputs (base fee parseEther('0.001'), gas
\* price parseEther('0.002')): its normal return gives maxFeePerGas =
\* parseEther('0.004') and maxPriorityFeePerGas = parseEther('0.002'), the
\* same on every such failure; the pair parseEther('0.01') /
\* parseEther('0.002') is returned by the outer catch only.
C14_LookupFailureGivesInputFallbacks ==
    (v2.pc \in {"returned", "written"} /\ v2.lookup = "failed") =>
        /\ v2.path \in {"normal", "fallback"}
        /\ v2.maxPriorityFeePerGas = 2000000
        /\ v2.maxFeePerGas = IF v2.path = "fallback" THEN 10000000 ELSE 4000000

\* C14 witness: a configuration returned normally after getGasPrice failed
\* although the block had reported a base fee.
C14_Witness ==
    /\ v2.pc = "returned"
    /\ v2.lookup = "failed"
    /\ v2.reportedBaseFee = 1
    /\ v2.path = "normal"
    /\ v2.maxFeePerGas = 4000000

\* C15: the normal return of getOptimizedGasConfig (v2) has the tiered tip
\* (parseEther('0.0005') below a base fee of parseEther('0.001'), else
\* parseEther('0.002')) and maxFeePerGas = max(baseFee * 2 + tip, gasPrice +
\* tip), for every base fee and gas price of the range.
C15_NormalPathMaxFee ==
    (v2.pc \in {"returned", "written"} /\ v2.path = "normal") =>
        LET tip == IF v2.baseFeePerGas < 1000000 THEN 500000 ELSE 2000000
            byBaseFee == (v2.baseFeePerGas * 2) + tip
            byGasPrice == v2.gasPrice + tip
        IN  /\ v2.maxPriorityFeePerGas = tip
            /\ v2.maxFeePerGas >= byBaseFee
            /\ v2.maxFeePerGas >= byGasPrice
            /\ v2.maxFeePerGas \in {byBaseFee, byGasPrice}

\* C15 witness: a normal return where the gas price decides the cap.
C15_Witness ==
    /\ v2.pc = "returned"
    /\ v2.path = "normal"
    /\ v2.baseFeePerGas = 1
    /\ v2.gasPrice = 9000000
    /\ v2.maxFeePerGas = 9500000

\* C16: for a successful estimate g, estimateGas (v1) returns the largest
\* integer not above g * 120 / 100 and the gas limit of
\* getOptimizedGasConfig (v2) is the largest integer not above g * 125 / 100;
\* neither is below g.
C16_BufferedEstimateIsFloor ==
    /\ (probe.fn = "estimateGas" /\ probe.ok /\ probe.address # "") =>
          /\ probe.gas * 100 <= probe.input * 120
          /\ probe.input * 120 < (probe.gas + 1) * 100
          /\ probe.gas >= probe.input
    /\ (probe.fn = "getOptimizedGasConfig" /\ probe.ok) =>
          /\ probe.gas * 100 <= probe.input * 125
          /\ probe.input * 125 < (probe.gas + 1) * 100
          /\ probe.gas >= probe.input

\* C16 witness: an estimate of 7 becomes 8 in v2 (8.75 rounded down).
C16_Witness ==
    /\ probe.fn = "getOptimizedGasConfig"
    /\ probe.ok
    /\ probe.input = 7
    /\ probe.gas = 8

\* C17: the hook does not coordinate overlapping calls: a domain operation
\* that passes the balance check takes the cached nonce as it finds it,
\* whatever other call is in flight; and two calls carry the same nonce only
\* when the cache was stale for the later one, which is when
\* resetNonceAndBalance wrote it after the earlier of them had read it (the
\* read and the write of nonce + 1 of one call are a single synchronous
\* step).  That two overlapping calls do end up signed with the same nonce
\* is the witness.
C17_SameNonceOnlyAfterResetWrite ==
    /\ [](\A c, d \in Calls :
            (c # d /\ tx[c].nonce # Null /\ tx[c].nonce = tx[d].nonce) =>
                tx[c].overwritten \/ tx[d].overwritten)
    /\ [][\A c \in Calls :
            (tx[c].pc = "idle" /\ tx'[c].nonce # Null) =>
                tx'[c].nonce = userNonce]_vars

\* C17 witness: two calls in flight together, both at their signature
\* requests with nonce 0.
C17_Witness ==
    /\ tx["c1"].pc = "sign"
    /\ tx["c2"].pc = "sign"
    /\ tx["c1"].nonce = 0
    /\ tx["c2"].nonce = 0

\* C18: within one login session the nonces handed to signTransaction
\* increase strictly from call to call, so no two signature requests carry
\* the same nonce, however resetNonceAndBalance interleaves.
C18_SignedNoncesIncrease ==
    \A c, d \in Calls :
        (c # d /\ Has(tx[c].log, "signTransaction")
               /\ Has(tx[d].log, "signTransaction")) =>
            tx[c].nonce # tx[d].nonce

\* The errors of a call that has passed the balance check.
FailedAfterBalanceCheck(t) ==
    t.pc = "done" /\ t.error \notin {NoError, "Signer has insufficient balance."}

\* C19: a domain operation that passes the balance check advances the cached
\* nonce by one and takes its estimated cost (0.0075 ether for startGame,
\* 0.005 for play) off the cached balance, also when it fails in that very
\* step; and the step in which a call fails later (signature, transport, RPC
\* error, receipt) leaves the cache as it is: nothing is rolled back, and
\* with no reset write in between the cached nonce is still the call's
\* nonce plus one when the call has failed.
C19_NoRollbackOnFailure ==
    /\ [][\A c \in Calls :
            /\ (tx[c].pc = "idle" /\ tx'[c].nonce # Null) =>
                  /\ userNonce' = userNonce + 1
                  /\ userBalance' = userBalance -
                        (IF tx'[c].kind = "startGame" THEN 75 ELSE 50)
            /\ (InFlight(c) /\ FailedAfterBalanceCheck(tx'[c])) =>
                  /\ userNonce' = userNonce
                  /\ userBalance' = userBalance]_vars
    /\ [](\A c \in Calls :
            (FailedAfterBalanceCheck(tx[c]) /\ ~tx[c].overwritten) =>
                userNonce = tx[c].nonce + 1)

\* C19 witness: a startGame call made with balance 0.02 ether has failed on
\* a reverted receipt; the cache holds its nonce plus one and 0.0125 ether.
C19_Witness ==
    /\ tx["c1"].pc = "done"
    /\ tx["c1"].kind = "startGame"
    /\ tx["c1"].error = "Failed to confirm transaction"
    /\ ~tx["c1"].overwritten
    /\ userNonce = tx["c1"].nonce + 1
    /\ userBalance = 125

\* C20: a call waiting for its receipt leaves the wait only in the step in
\* which waitForTransactionReceipt settles, and then it is over: confirmed
\* on a success receipt, failed on a reverted receipt or a rejected wait; no
\* other step ends the wait.  When the node answers every wait in the end,
\* every waiting call ends.
C20_WaitEndsOnlyWithTheAnswer ==
    /\ [][\A c \in Calls :
            (tx[c].pc = "receipt" /\ tx'[c].pc # "receipt") =>
                /\ tx'[c].pc = "done"
                /\ \/ tx'[c].receiptStatus = "success" /\ tx'[c].error = NoError
                   \/ /\ tx'[c].receiptStatus = "reverted"
                      /\ tx'[c].error = "Failed to confirm transaction"
                   \/ /\ tx'[c].receiptStatus = "none"
                      /\ tx'[c].error = "The request failed."]_vars
    /\ \A c \in Calls : (tx[c].pc = "receipt") ~> (tx[c].pc = "done")

\* C20 witness: a call that waited for its receipt and ended on a reverted
\* one.
C20_Witness ==
    /\ tx["c1"].pc = "done"
    /\ Has(tx["c1"].log, "waitForTransactionReceipt")
    /\ tx["c1"].receiptStatus = "reverted"
    /\ tx["c1"].error = "Failed to confirm transaction"

\* C21: a domain-operation call requests at most one signature; what it
\* posts, on the first attempt and on every retry, is the one payload
\* signed with the nonce the call read from the cache when it started; and
\* a call that has ended (failed or not) does nothing more: the flow is not
\* run again.
C21_OneSignatureOnePayloadNoRerun ==
    /\ [](\A c \in Calls :
            /\ Count(tx[c].log, "signTransaction") <= 1
            /\ tx[c].pc \in {"post", "receipt"} =>
                  /\ Count(tx[c].log, "signTransaction") = 1
                  /\ tx[c].signedTransaction = tx[c].nonce)
    /\ [][\A c \in Calls :
            /\ (tx[c].pc = "idle" /\ tx'[c].nonce # Null) =>
                  tx'[c].nonce = userNonce
            /\ (tx[c].pc # "idle" /\ tx'[c].pc # "idle") =>
                  tx'[c].nonce = tx[c].nonce
            /\ (tx[c].pc = "post" /\ tx'[c].pc = "post") =>
                  tx'[c].signedTransaction = tx[c].signedTransaction
            /\ tx[c].pc = "done" =>
                  /\ tx'[c].pc \in {"done", "idle"}
                  /\ tx'[c].pc = "done" =>
                        /\ tx'[c].log = tx[c].log
                        /\ tx'[c].error = tx[c].error]_vars

\* C21 witness: the third attempt of a call with nonce 1 posts the payload
\* signed with nonce 1 while the cache has moved on to 2.
C21_Witness ==
    /\ tx["c1"].pc = "post"
    /\ tx["c1"].attempts = 2
    /\ tx["c1"].nonce = 1
    /\ tx["c1"].signedTransaction = 1
    /\ userNonce = 2

\* C22: the validation of getOptimizedGasConfig (v2) adjusts exactly when the
\* computed maxFeePerGas (the larger of baseFee * 2 + tip and gasPrice + tip)
\* is not above the tip; it then returns three times the tip as
\* maxFeePerGas, with the tip and the gas limit as they were computed;
\* otherwise the computed maxFeePerGas is returned.
C22_AdjustsExactlyWhenCapNotAboveTip ==
    probe.fn = "pricing" =>
        LET tip == IF probe.baseFeePerGas < 1000000 THEN 500000 ELSE 2000000
            byBaseFee == (probe.baseFeePerGas * 2) + tip
            byGasPrice == probe.gasPrice + tip
            computed == IF byBaseFee > byGasPrice THEN byBaseFee ELSE byGasPrice
            gasLimit == IF probe.ok
                        THEN (probe.input * 125) \div 100
                        ELSE IF probe.functionName = "startGame"
                             THEN 150000 ELSE 100000
        IN  /\ (probe.path = "adjusted") <=> (computed <= tip)
            /\ probe.path \in {"adjusted", "normal"}
            /\ probe.maxPriorityFeePerGas = tip
            /\ probe.gas = gasLimit
            /\ probe.maxFeePerGas =
                  IF probe.path = "adjusted" THEN 3 * tip ELSE computed

\* C22 witness: base fee and gas price both zero make the computed cap equal
\* to the tip; the adjusted configuration is returned.
C22_Witness ==
    /\ probe.fn = "pricing"
    /\ probe.baseFeePerGas = 0
    /\ probe.gasPrice = 0
    /\ probe.path = "adjusted"
    /\ probe.maxFeePerGas = 1500000
    /\ probe.maxPriorityFeePerGas = 500000
    /\ probe.ok
    /\ probe.gas = 26250

\* C28: getOptimizedGasConfig (v2) never returns through the adjustment of
\* its validation: whatever base fee and gas price the node reports
\* (missing and zero included), the base fee priced with is positive and the
\* returned maxFeePerGas is at least baseFee * 2 + tip, above the tip.
C28_AdjustmentNeverTaken ==
    /\ v2.path # "adjusted"
    /\ (v2.pc \in {"returned", "written"} /\ v2.path = "normal") =>
          /\ v2.baseFeePerGas >= 1
          /\ v2.maxFeePerGas >= (v2.baseFeePerGas * 2) + v2.maxPriorityFeePerGas

\* C28 witness: the block reported a zero base fee and the gas price was
\* replaced by its fallback too; the return is the normal one, priced with
\* the fallbacks.
C28_Witness ==
    /\ v2.pc = "returned"
    /\ v2.lookup = "ok"
    /\ v2.reportedBaseFee = 0
    /\ v2.baseFeePerGas = 1000000
    /\ v2.gasPrice = 2000000
    /\ v2.path = "normal"
    /\ v2.maxFeePerGas = 4000000

\* C23: in every call of sendRawTransactionAndConfirm that has reached its
\* signature request, the prices were looked up exactly when the caller had
\* not supplied both fee arguments (one fee argument alone is discarded),
\* the gas limit was estimated exactly when the caller had not supplied gas,
\* and every supplied value that was used is in the signature request as
\* supplied.  A supplied argument is a value that passes the code's test of
\* it (line 174, line 179): not 0n.  The domain operations supply none.
C23_NetworkOnlyWhenNotSupplied ==
    \A c \in Calls :
        tx[c].pc = "sign" =>
            LET feesSupplied == /\ tx[c].argMaxFeePerGas # Null
                                /\ tx[c].argMaxPriorityFeePerGas # Null
                gasSupplied == tx[c].gas # Null
            IN  /\ tx[c].kind # "direct" => ~feesSupplied /\ ~gasSupplied
                /\ (tx[c].argMaxFeePerGas # 0 /\ tx[c].argMaxPriorityFeePerGas # 0) =>
                      /\ feesSupplied <=> ~Has(tx[c].log, "getBlock")
                      /\ feesSupplied =>
                            /\ tx[c].maxFeePerGas = tx[c].argMaxFeePerGas
                            /\ tx[c].maxPriorityFeePerGas =
                                  tx[c].argMaxPriorityFeePerGas
                /\ tx[c].gas # 0 =>
                      /\ gasSupplied <=> ~Has(tx[c].log, "estimateGas")
                      /\ gasSupplied => tx[c].gasLimit = tx[c].gas

\* C23 witness: a call with all three gas arguments supplied is at its
\* signature request with them, and nothing was asked of the network.
C23_Witness ==
    /\ tx["c1"].pc = "sign"
    /\ tx["c1"].kind = "direct"
    /\ tx["c1"].gasLimit = 50000
    /\ tx["c1"].maxFeePerGas = 1500000000
    /\ tx["c1"].maxPriorityFeePerGas = 100000000
    /\ tx["c1"].log = <<"signTransaction">>

\* C27: a call that enters sendRawTransactionAndConfirm while the wallet
\* client is not set or the cached address is empty ends in that very step
\* with "Wallet not found." / "Privy user not found." and its failure
\* notification, with no lookup, estimation, signature request or post made;
\* and no call ends with one of these errors after any of them.
C27_MissingWalletOrAddressFailsFirst ==
    /\ [][\A c \in Calls :
            (tx[c].pc = "idle" /\ tx'[c].nonce # Null
                 /\ (walletClient = "null" \/ userAddress = "")) =>
                /\ tx'[c].pc = "done"
                /\ tx'[c].error = IF walletClient = "null"
                                  THEN "Wallet not found."
                                  ELSE "Privy user not found."
                /\ tx'[c].log = <<"toast.error">>]_vars
    /\ [](\A c \in Calls :
            tx[c].error \in {"Wallet not found.", "Privy user not found."} =>
                tx[c].pc = "done" /\ tx[c].log = <<"toast.error">>)

\* C27 witness: a call made with the wallet client set and the cached
\* address still empty has failed at once.
C27_Witness ==
    /\ tx["c1"].pc = "done"
    /\ tx["c1"].error = "Privy user not found."
    /\ tx["c1"].log = <<"toast.error">>
    /\ walletClient = "provider"
    /\ userAddress = ""

\* C24: a step of resetNonceAndBalance (a call of it starts, with or
\* without a user or a privy wallet; a node read of a call in flight answers
\* or fails) either leaves the cached nonce, balance and address all
\* unchanged, or it is the step that ends a call after both node reads and
\* writes the three together (the count and the address of that call, a
\* balance the node reported); and the cached address changes in no other
\* way.  This holds with several calls in flight.
C24_ResetWritesAllOrNothing ==
    [][/\ (reset' # reset \/ user' # user) =>
             \/ UNCHANGED <<userNonce, userBalance, userAddress>>
             \/ \E r \in PendingResets({"getBalance"}) :
                   /\ reset' = reset (-) SetToBag({r})
                   /\ userNonce' = r.nonce
                   /\ userBalance' \in NodeBalances
                   /\ userAddress' = r.address
       /\ userAddress' # userAddress =>
             \E r \in PendingResets({"getBalance"}) :
                /\ reset' = reset (-) SetToBag({r})
                /\ userNonce' = r.nonce]_vars

\* C24 witness: a reset has written count 1, balance 0.02 ether and the
\* wallet's address.
C24_Witness ==
    /\ reset = EmptyBag
    /\ userNonce = 1
    /\ userBalance = 200
    /\ userAddress = "0xA11CE"
    /\ tx["c1"].pc = "idle"

\* C25: the cached balance is never negative; a domain operation takes its
\* cost off the cache only in a step that found the balance at 0.01 ether or
\* more, which leaves at least 0.0025 ether, with calls overlapping and
\* resetNonceAndBalance interleaved in every way.
C25_BalanceNeverNegative ==
    /\ [](userBalance >= 0)
    /\ [][\A c \in Calls :
            (tx[c].pc = "idle" /\ tx'[c].pc # "idle"
                 /\ userBalance' # userBalance) =>
                /\ userBalance >= 100
                /\ userBalance' >= 25]_vars

\* C25 witness: two overlapping calls, a startGame charged on the threshold
\* balance of 0.01 ether and a second call refused on what is left.
C25_Witness ==
    /\ userBalance = 25
    /\ InFlight("c1")
    /\ tx["c1"].kind = "startGame"
    /\ tx["c2"].error = "Signer has insufficient balance."

\* C26: a call of sendRawTransactionAndConfirm that has ended has notified
\* exactly one of "confirmed" and "failed", as its last notification; it has
\* returned without an error exactly when that was "confirmed"; "failed" may
\* come after "submitted".
C26_OneTerminalNotification ==
    \A c \in Calls :
        (tx[c].pc = "done" /\ tx[c].error # "Signer has insufficient balance.") =>
            /\ Count(tx[c].log, "toast.success") + Count(tx[c].log, "toast.error") = 1
            /\ tx[c].log[Len(tx[c].log)] \in {"toast.success", "toast.error"}
            /\ (tx[c].error = NoError) <=> Has(tx[c].log, "toast.success")

\* C26 witness: a call that notified "submitted" and then "failed".
C26_Witness ==
    /\ tx["c1"].pc = "done"
    /\ tx["c1"].error = "Failed to confirm transaction"
    /\ Has(tx["c1"].log, "toast.info")
    /\ Count(tx["c1"].log, "toast.error") = 1
    /\ ~Has(tx["c1"].log, "toast.success")

=============================================================================
